---- MODULE Spec2Model ----
(***************************************************************************)
(* The layer store of registry/storage/layerstore.go: existence checks,    *)
(* fetch, upload start/resume and tombstone-based delete, over a storage   *)
(* driver.  Every driver call is one atomic step; the calls of one         *)
(* operation interleave with the calls of the operations other request     *)
(* handlers run.                                                           *)
(***************************************************************************)
EXTENDS Naturals, Sequences, FiniteSets

\* ------------------------------------------------------------------------
\* Bounds of the model
\* ------------------------------------------------------------------------
\* Layer Store calls made over one behaviour.
MaxCalls == 2
\* Bytes one upload data file can hold.
MaxData == 2

Repos == {"r1", "r2"}
Digests == {"d1", "d2"}
\* The tokens uuid.New() returns, in the order it returns them: tokens are
\* opaque and never repeat, so their order stands for any other.
TokenSeq == <<"u1", "u2">>
Tokens == {TokenSeq[i] : i \in 1..Len(TokenSeq)}
\* The request handlers (execution units) calling the layer store.
Procs == {"h1", "h2"}
\* Instants time.Now() can return: whole seconds plus a sub-second part.
Times == {[sec |-> 1, nsec |-> 500], [sec |-> 2, nsec |-> 0]}
\* The content a client uploads, byte after byte.
Content == <<"a", "b", "c", "d", "e", "f">>

\* ------------------------------------------------------------------------
\* Values
\* ------------------------------------------------------------------------
NoFile == [tag |-> "nofile"]
\* Content of a started-at marker that is no RFC3339 text.
Garbage == [tag |-> "garbage"]

NoRes == [tag |-> "none"]
\* (b, nil) of Exists
BoolRes(b) == [tag |-> "bool", val |-> b]
\* nil error of Delete
NilErr == [tag |-> "nil"]
ErrUnknownLayer(dgst) == [tag |-> "ErrUnknownLayer", BlobSum |-> dgst]
ErrLayerUploadUnknown == [tag |-> "ErrLayerUploadUnknown"]
PathNotFoundError(path) == [tag |-> "PathNotFoundError", Path |-> path]
\* Any driver error other than path-not-found.
IOError == [tag |-> "IOError"]
ParseError == [tag |-> "ParseError"]
LayerReader(dgst, bp) == [tag |-> "layerReader", digest |-> dgst, path |-> bp]
LayerWriter(uuid, startedAt, path, size) ==
    [tag |-> "layerWriter", uuid |-> uuid, startedAt |-> startedAt,
     path |-> path, size |-> size, offset |-> size]

\* ------------------------------------------------------------------------
\* Path mapper (pm.path): pure, one path per spec
\* ------------------------------------------------------------------------
uploadDataPathSpec(name, uuid) == <<"uploads", name, uuid, "data">>
uploadStartedAtPathSpec(name, uuid) == <<"uploads", name, uuid, "startedat">>
layerLinkPathSpec(name, dgst) == <<"layers", name, dgst, "link">>
blobPath(dgst) == <<"blobs", dgst, "data">>

StartedAtPaths == {uploadStartedAtPathSpec(n, u) : n \in Repos, u \in Tokens}
DataPaths == {uploadDataPathSpec(n, u) : n \in Repos, u \in Tokens}

\* ------------------------------------------------------------------------
\* time.RFC3339: "2006-01-02T15:04:05Z07:00" has no sub-second field
\* ------------------------------------------------------------------------
FormatRFC3339(t) == [tag |-> "rfc3339", sec |-> t.sec]
WellFormed(text) == text.tag = "rfc3339"
ParseRFC3339(text) == [sec |-> text.sec, nsec |-> 0]

\* ------------------------------------------------------------------------
\* State
\* ------------------------------------------------------------------------
VARIABLES
    tombstones,      \* tombstone markers in the driver: <<name, digest>>
    links,           \* layer link paths that exist in the driver
    blobs,           \* blob paths at which bytes exist in the driver
    startedAtFiles,  \* started-at path -> content, or NoFile
    uploadData,      \* upload data path -> bytes (<<>>: no file)
    proc,            \* request handler -> its position in the call it runs
    used,            \* tokens uuid.New() has returned
    issued,          \* history: token -> the session Upload() returned for it
    deleted,         \* history: <<name, digest>> for which Delete returned nil
    written,         \* history: <<name, uuid>> -> bytes its sessions accepted
    shared,          \* history: data paths opened by two live writers at once
    calls            \* Layer Store calls made so far

vars == <<tombstones, links, blobs, startedAtFiles, uploadData, proc, used,
          issued, deleted, written, shared, calls>>

store == <<tombstones, links, blobs, startedAtFiles, uploadData>>

NoTime == [sec |-> 0, nsec |-> 0]
NoPre == [tomb |-> FALSE, link |-> FALSE, blob |-> FALSE, deleted |-> FALSE,
          marker |-> FALSE, other |-> FALSE]
NoSession == [tag |-> "nosession"]

Idle == [pc |-> "idle", op |-> "-", name |-> "-", dgst |-> "-", uuid |-> "-",
         startedAt |-> NoTime, bp |-> <<>>, pre |-> NoPre, res |-> NoRes]

\* What the store held for (name, dgst, uuid) when a call made its first
\* driver call.
Snapshot(name, dgst, uuid) ==
    [tomb |-> <<name, dgst>> \in tombstones,
     link |-> layerLinkPathSpec(name, dgst) \in links,
     blob |-> blobPath(dgst) \in blobs,
     deleted |-> <<name, dgst>> \in deleted,
     marker |-> /\ uuid \in Tokens
                /\ startedAtFiles[uploadStartedAtPathSpec(name, uuid)] # NoFile,
     \* a tombstone is there for another repository or another digest
     other |-> tombstones \ {<<name, dgst>>} # {}]

\* A handler takes a call when it runs none; h2 takes one only while h1 is
\* occupied (free handlers are interchangeable).
Free(p) ==
    /\ proc[p].pc \in {"idle", "done"}
    /\ p = "h2" => proc["h1"].pc # "idle"

Called(op, name, dgst, uuid) ==
    [Idle EXCEPT !.op = op, !.name = name, !.dgst = dgst, !.uuid = uuid,
                 !.pre = Snapshot(name, dgst, uuid)]

Done(pr, res) == [pr EXCEPT !.pc = "done", !.res = res]

\* What the driver holds of committed layers when the store is constructed:
\* links and blob bytes are written outside the layer store.
Committed ==
    { \* r1 owns d1; r2 does not own d1, whose bytes exist; the link of r1 for
      \* d2 names a blob without bytes; r2 and d2 know nothing of each other
      [links |-> {<<"r1", "d1">>, <<"r1", "d2">>}, blobs |-> {"d1"}],
      \* r1 and r2 share the blob d1; r2 does not own d2, which r1 owns
      [links |-> {<<"r1", "d1">>, <<"r2", "d1">>, <<"r1", "d2">>},
       blobs |-> {"d1", "d2"}],
      \* bytes of d1 that no repository owns
      [links |-> {}, blobs |-> {"d1"}] }

Init ==
    /\ tombstones = {}
    /\ \E c \in Committed :
         /\ links = {layerLinkPathSpec(l[1], l[2]) : l \in c.links}
         /\ blobs = {blobPath(d) : d \in c.blobs}
    /\ startedAtFiles = [path \in StartedAtPaths |-> NoFile]
    /\ uploadData = [path \in DataPaths |-> <<>>]
    /\ proc = [p \in Procs |-> Idle]
    /\ used = {}
    /\ issued = [u \in Tokens |-> NoSession]
    /\ deleted = {}
    /\ written = [k \in Repos \X Tokens |-> <<>>]
    /\ shared = {}
    /\ calls = 0

\* ------------------------------------------------------------------------
\* Collaborators of the layer store: tombstone manager, blob store, driver
\* ------------------------------------------------------------------------
tombstoneExists(name, dgst) == <<name, dgst>> \in tombstones
putTombstone(name, dgst) == tombstones \cup {<<name, dgst>>}

\* blobStore.resolve: reads the link and gives the blob path it names.
resolve(linkPath, dgst, fault) ==
    IF fault THEN [err |-> IOError, path |-> <<>>]
    ELSE IF linkPath \notin links
         THEN [err |-> PathNotFoundError(linkPath), path |-> <<>>]
         ELSE [err |-> NilErr, path |-> blobPath(dgst)]

\* driver.Stat
Stat(path, fault) ==
    IF fault THEN IOError
    ELSE IF path \notin blobs THEN PathNotFoundError(path) ELSE NilErr

\* newFileWriter: the writer opens at the end of what the path already holds.
newFileWriter(path, fault) ==
    IF fault THEN [err |-> IOError, size |-> 0]
    ELSE [err |-> NilErr, size |-> Len(uploadData[path])]

\* newFileReader
newFileReader(path, fault) == IF fault THEN IOError ELSE NilErr

\* ------------------------------------------------------------------------
\* layerStore.path: the blob path, through the repository's link
\* ------------------------------------------------------------------------
\* The blob path taken from the digest alone, not through the link.
pathOfBlob(name, dgst, fault) ==
    IF fault THEN [err |-> IOError, path |-> <<>>]
    ELSE [err |-> NilErr, path |-> blobPath(dgst)]

path(name, dgst, fault) ==
    LET r == resolve(layerLinkPathSpec(name, dgst), dgst, fault) IN
    IF r.err # NilErr
    THEN IF r.err.tag = "PathNotFoundError"
         THEN [err |-> ErrUnknownLayer(dgst), path |-> <<>>]
         ELSE [err |-> r.err, path |-> <<>>]
    ELSE [err |-> NilErr, path |-> r.path]

\* ------------------------------------------------------------------------
\* layerStore.Exists, and layerStore.Fetch which starts by calling it
\* ------------------------------------------------------------------------
\* Exists returns (b, err) to its caller: the request handler, or Fetch.
ExistsReturns(pr, b, err) ==
    IF pr.op = "Exists"
    THEN Done(pr, IF err # NilErr THEN err ELSE BoolRes(b))
    ELSE IF err # NilErr THEN Done(pr, err)
    ELSE IF ~b THEN Done(pr, ErrUnknownLayer(pr.dgst))
    ELSE [pr EXCEPT !.pc = "fetch_path"]

\* Exists taking the tombstone of any repository for the digest as its own.
ExistsTombstoneAnyRepo(pr, fault) ==
    IF fault THEN ExistsReturns(pr, FALSE, IOError)
    ELSE IF \E name \in Repos : tombstoneExists(name, pr.dgst)
         THEN ExistsReturns(pr, FALSE, NilErr)
         ELSE [pr EXCEPT !.pc = "exists_path"]

\* Exists without its tombstone check.
ExistsTombstoneUnchecked(pr, fault) ==
    IF fault THEN ExistsReturns(pr, FALSE, IOError)
    ELSE [pr EXCEPT !.pc = "exists_path"]

\* The tombstone check that opens Exists.
ExistsTombstone(pr, fault) ==
    IF fault THEN ExistsReturns(pr, FALSE, IOError)
    ELSE IF tombstoneExists(pr.name, pr.dgst) THEN ExistsReturns(pr, FALSE, NilErr)
    ELSE [pr EXCEPT !.pc = "exists_path"]

ExistsCall(p, name, dgst) ==
    /\ Free(p)
    /\ calls < MaxCalls
    /\ \E fault \in BOOLEAN :
         proc' = [proc EXCEPT ![p] =
                    ExistsTombstone(Called("Exists", name, dgst, "-"), fault)]
    /\ calls' = calls + 1
    /\ UNCHANGED <<store, used, issued, deleted, written, shared>>

FetchCall(p, name, dgst) ==
    /\ Free(p)
    /\ calls < MaxCalls
    /\ \E fault \in BOOLEAN :
         proc' = [proc EXCEPT ![p] =
                    ExistsTombstone(Called("Fetch", name, dgst, "-"), fault)]
    /\ calls' = calls + 1
    /\ UNCHANGED <<store, used, issued, deleted, written, shared>>

\* Exists handing the ErrUnknownLayer of path to its caller as an error.
ExistsPathStepRaw(pr, fault) ==
    LET r == path(pr.name, pr.dgst, fault) IN
    IF r.err # NilErr THEN ExistsReturns(pr, FALSE, r.err)
    ELSE [pr EXCEPT !.pc = "exists_stat", !.bp = r.path]

\* Exists after the tombstone check: resolve the link.
ExistsPathStep(pr, fault) ==
    LET r == path(pr.name, pr.dgst, fault) IN
    IF r.err # NilErr
    THEN IF r.err.tag = "ErrUnknownLayer"
         THEN ExistsReturns(pr, FALSE, NilErr)
         ELSE ExistsReturns(pr, FALSE, r.err)
    ELSE [pr EXCEPT !.pc = "exists_stat", !.bp = r.path]

ExistsPath(p) ==
    /\ proc[p].pc = "exists_path"
    /\ \E fault \in BOOLEAN :
         proc' = [proc EXCEPT ![p] = ExistsPathStep(proc[p], fault)]
    /\ UNCHANGED <<store, used, issued, deleted, written, shared, calls>>

\* Exists after the link resolved: Stat the blob path.  The error of Stat is
\* returned as it is; the switch on ErrUnknownLayer after it is never reached.
ExistsStatStep(pr, fault) ==
    LET err == Stat(pr.bp, fault) IN
    IF err # NilErr THEN ExistsReturns(pr, FALSE, err)
    ELSE ExistsReturns(pr, TRUE, NilErr)

ExistsStat(p) ==
    /\ proc[p].pc = "exists_stat"
    /\ \E fault \in BOOLEAN :
         proc' = [proc EXCEPT ![p] = ExistsStatStep(proc[p], fault)]
    /\ UNCHANGED <<store, used, issued, deleted, written, shared, calls>>

\* Fetch treating a tombstone that appeared after its Exists as a driver
\* failure of the path lookup.
FetchPathStepRechecking(pr, fault) ==
    LET r == path(pr.name, pr.dgst, fault) IN
    IF tombstoneExists(pr.name, pr.dgst)
    THEN Done(pr, PathNotFoundError(layerLinkPathSpec(pr.name, pr.dgst)))
    ELSE IF r.err # NilErr THEN Done(pr, r.err)
    ELSE [pr EXCEPT !.pc = "fetch_open", !.bp = r.path]

\* Fetch after Exists returned (true, nil): resolve the link again.
FetchPathStep(pr, fault) ==
    LET r == path(pr.name, pr.dgst, fault) IN
    IF r.err # NilErr THEN Done(pr, r.err)
    ELSE [pr EXCEPT !.pc = "fetch_open", !.bp = r.path]

FetchPath(p) ==
    /\ proc[p].pc = "fetch_path"
    /\ \E fault \in BOOLEAN :
         proc' = [proc EXCEPT ![p] = FetchPathStep(proc[p], fault)]
    /\ UNCHANGED <<store, used, issued, deleted, written, shared, calls>>

\* Fetch returning a reader whose digest field is left unset.
FetchOpenStepNoDigest(pr, fault) ==
    LET err == newFileReader(pr.bp, fault) IN
    IF err # NilErr THEN Done(pr, err)
    ELSE Done(pr, LayerReader("", pr.bp))

\* Fetch: open the reader and bind it to the digest asked for.
FetchOpenStep(pr, fault) ==
    LET err == newFileReader(pr.bp, fault) IN
    IF err # NilErr THEN Done(pr, err)
    ELSE Done(pr, LayerReader(pr.dgst, pr.bp))

FetchOpen(p) ==
    /\ proc[p].pc = "fetch_open"
    /\ \E fault \in BOOLEAN :
         proc' = [proc EXCEPT ![p] = FetchOpenStep(proc[p], fault)]
    /\ UNCHANGED <<store, used, issued, deleted, written, shared, calls>>

\* ------------------------------------------------------------------------
\* layerStore.Delete
\* ------------------------------------------------------------------------
\* Delete refusing a digest the repository has no link for.
DeleteTombstoneNeedsLink(pr, fault) ==
    IF fault THEN Done(pr, IOError)
    ELSE IF tombstoneExists(pr.name, pr.dgst) \/ ~pr.pre.link
         THEN Done(pr, ErrUnknownLayer(pr.dgst))
         ELSE [pr EXCEPT !.pc = "delete_put"]

\* Delete without its tombstone check.
DeleteTombstoneUnchecked(pr, fault) ==
    IF fault THEN Done(pr, IOError)
    ELSE [pr EXCEPT !.pc = "delete_put"]

DeleteTombstone(pr, fault) ==
    IF fault THEN Done(pr, IOError)
    ELSE IF tombstoneExists(pr.name, pr.dgst)
         THEN Done(pr, ErrUnknownLayer(pr.dgst))
         ELSE [pr EXCEPT !.pc = "delete_put"]

DeleteCall(p, name, dgst) ==
    /\ Free(p)
    /\ calls < MaxCalls
    /\ \E fault \in BOOLEAN :
         proc' = [proc EXCEPT ![p] =
                    DeleteTombstone(Called("Delete", name, dgst, "-"), fault)]
    /\ calls' = calls + 1
    /\ UNCHANGED <<store, used, issued, deleted, written, shared>>

\* Delete keeping no tombstone but the one it writes.
DeleteWritesOnly(name, dgst) == {<<name, dgst>>}

\* The tombstones after Delete wrote the one for (name, dgst).
DeleteWrites(name, dgst) == putTombstone(name, dgst)

\* A Delete that also removes the repository's link for the digest.
DeletePutUnlinking(p) ==
    /\ proc[p].pc = "delete_put"
    /\ \E fault \in BOOLEAN :
         IF fault
         THEN /\ proc' = [proc EXCEPT ![p] = Done(proc[p], IOError)]
              /\ UNCHANGED <<tombstones, deleted, links>>
         ELSE /\ tombstones' = DeleteWrites(proc[p].name, proc[p].dgst)
              /\ links' = links \ {layerLinkPathSpec(proc[p].name, proc[p].dgst)}
              /\ proc' = [proc EXCEPT ![p] = Done(proc[p], NilErr)]
              /\ deleted' = deleted \cup {<<proc[p].name, proc[p].dgst>>}
    /\ UNCHANGED <<blobs, startedAtFiles, uploadData, used, issued,
                   written, shared, calls>>

DeletePut(p) ==
    /\ proc[p].pc = "delete_put"
    /\ \E fault \in BOOLEAN :
         IF fault
         THEN /\ proc' = [proc EXCEPT ![p] = Done(proc[p], IOError)]
              /\ UNCHANGED <<tombstones, deleted>>
         ELSE /\ tombstones' = DeleteWrites(proc[p].name, proc[p].dgst)
              /\ proc' = [proc EXCEPT ![p] = Done(proc[p], NilErr)]
              /\ deleted' = deleted \cup {<<proc[p].name, proc[p].dgst>>}
    /\ UNCHANGED <<links, blobs, startedAtFiles, uploadData, used, issued,
                   written, shared, calls>>

\* ------------------------------------------------------------------------
\* layerStore.newLayerUpload, Upload and Resume
\* ------------------------------------------------------------------------
newLayerUpload(uuid, dataPath, startedAt, fault) ==
    LET fw == newFileWriter(dataPath, fault) IN
    IF fw.err # NilErr THEN fw.err
    ELSE LayerWriter(uuid, startedAt, dataPath, fw.size)

\* The writers request handlers hold on dataPath, other than p's.
LiveWriters(p, dataPath) ==
    {q \in Procs \ {p} : /\ proc[q].pc = "done"
                         /\ proc[q].res.tag = "layerWriter"
                         /\ proc[q].res.path = dataPath}

\* The text Upload persists for the start time.
UploadStartedAtText(startedAt) == FormatRFC3339(startedAt)

\* The data path Upload opens its writer at.
UploadDataPath(name, uuid) == uploadDataPathSpec(name, uuid)

\* A token generator that returns the same token again.
uuidSame == TokenSeq[1]

\* uuid.New()
uuidNew == TokenSeq[Cardinality(used) + 1]

\* Upload up to the write of the started-at marker.
UploadCall(p, name) ==
    /\ Free(p)
    /\ calls < MaxCalls
    /\ Cardinality(used) < Len(TokenSeq)
    /\ \E startedAt \in Times, fault \in BOOLEAN :
         LET uuid == uuidNew
             pr == [Called("Upload", name, "-", uuid)
                      EXCEPT !.startedAt = startedAt] IN
         /\ used' = used \cup {uuid}
         /\ IF fault
            THEN /\ proc' = [proc EXCEPT ![p] = Done(pr, IOError)]
                 /\ UNCHANGED startedAtFiles
            ELSE /\ startedAtFiles' =
                      [startedAtFiles EXCEPT
                         ![uploadStartedAtPathSpec(name, uuid)] =
                            UploadStartedAtText(startedAt)]
                 /\ proc' = [proc EXCEPT ![p] = [pr EXCEPT !.pc = "upload_new"]]
    /\ calls' = calls + 1
    /\ UNCHANGED <<tombstones, links, blobs, uploadData, issued, deleted,
                   written, shared>>

\* An Upload that removes its started-at marker when the allocation fails.
UploadNewRollingBack(p) ==
    /\ proc[p].pc = "upload_new"
    /\ \E fault \in BOOLEAN :
         LET pr == proc[p]
             dataPath == UploadDataPath(pr.name, pr.uuid)
             res == newLayerUpload(pr.uuid, dataPath, pr.startedAt, fault) IN
         /\ proc' = [proc EXCEPT ![p] = Done(pr, res)]
         /\ startedAtFiles' =
              IF res.tag = "layerWriter" THEN startedAtFiles
              ELSE [startedAtFiles EXCEPT
                      ![uploadStartedAtPathSpec(pr.name, pr.uuid)] = NoFile]
         /\ issued' = IF res.tag = "layerWriter"
                      THEN [issued EXCEPT ![pr.uuid] =
                              [name |-> pr.name, startedAt |-> pr.startedAt]]
                      ELSE issued
         /\ shared' = IF res.tag = "layerWriter" /\ LiveWriters(p, dataPath) # {}
                      THEN shared \cup {dataPath} ELSE shared
    /\ UNCHANGED <<tombstones, links, blobs, uploadData, used, deleted,
                   written, calls>>

\* Upload: allocate the upload controller and return it.
UploadNew(p) ==
    /\ proc[p].pc = "upload_new"
    /\ \E fault \in BOOLEAN :
         LET pr == proc[p]
             dataPath == UploadDataPath(pr.name, pr.uuid)
             res == newLayerUpload(pr.uuid, dataPath, pr.startedAt, fault) IN
         /\ proc' = [proc EXCEPT ![p] = Done(pr, res)]
         /\ issued' = IF res.tag = "layerWriter"
                      THEN [issued EXCEPT ![pr.uuid] =
                              [name |-> pr.name, startedAt |-> pr.startedAt]]
                      ELSE issued
         /\ shared' = IF res.tag = "layerWriter" /\ LiveWriters(p, dataPath) # {}
                      THEN shared \cup {dataPath} ELSE shared
    /\ UNCHANGED <<store, used, deleted, written, calls>>

\* driver.GetContent of the started-at marker
GetStartedAt(name, uuid, fault) ==
    LET startedAtPath == uploadStartedAtPathSpec(name, uuid) IN
    IF fault THEN [err |-> IOError, bytes |-> NoFile]
    ELSE IF startedAtFiles[startedAtPath] = NoFile
         THEN [err |-> PathNotFoundError(startedAtPath), bytes |-> NoFile]
         ELSE [err |-> NilErr, bytes |-> startedAtFiles[startedAtPath]]

\* Resume taking the zero time for a started-at marker it cannot parse.
ResumeStartedAtDefaulting(pr, fault) ==
    LET got == GetStartedAt(pr.name, pr.uuid, fault) IN
    IF got.err # NilErr
    THEN IF got.err.tag = "PathNotFoundError"
         THEN Done(pr, ErrLayerUploadUnknown)
         ELSE Done(pr, got.err)
    ELSE [pr EXCEPT !.pc = "resume_new",
                    !.startedAt = IF WellFormed(got.bytes)
                                  THEN ParseRFC3339(got.bytes) ELSE NoTime]

\* Resume reading the started-at marker of another token than the one given.
ResumeStartedAtOtherToken(pr, fault) ==
    LET got == GetStartedAt(pr.name, CHOOSE u \in Tokens : u # pr.uuid, fault) IN
    IF got.err # NilErr
    THEN IF got.err.tag = "PathNotFoundError"
         THEN Done(pr, ErrLayerUploadUnknown)
         ELSE Done(pr, got.err)
    ELSE IF ~WellFormed(got.bytes) THEN Done(pr, ParseError)
    ELSE [pr EXCEPT !.pc = "resume_new",
                    !.startedAt = ParseRFC3339(got.bytes)]

\* Resume up to the parse of the started-at marker.
ResumeStartedAt(pr, fault) ==
    LET got == GetStartedAt(pr.name, pr.uuid, fault) IN
    IF got.err # NilErr
    THEN IF got.err.tag = "PathNotFoundError"
         THEN Done(pr, ErrLayerUploadUnknown)
         ELSE Done(pr, got.err)
    ELSE IF ~WellFormed(got.bytes) THEN Done(pr, ParseError)
    ELSE [pr EXCEPT !.pc = "resume_new",
                    !.startedAt = ParseRFC3339(got.bytes)]

ResumeCall(p, name, uuid) ==
    /\ Free(p)
    /\ calls < MaxCalls
    /\ \E fault \in BOOLEAN :
         proc' = [proc EXCEPT ![p] =
                    ResumeStartedAt(Called("Resume", name, "-", uuid), fault)]
    /\ calls' = calls + 1
    /\ UNCHANGED <<store, used, issued, deleted, written, shared>>

\* A data path derived from another token than the one given.
ResumeDataPathOther(name, uuid) ==
    uploadDataPathSpec(name, CHOOSE u \in Tokens : u # uuid)

\* The data path Resume reopens the writer at.
ResumeDataPath(name, uuid) == uploadDataPathSpec(name, uuid)

\* Resume: allocate the upload controller and return it.
ResumeNew(p) ==
    /\ proc[p].pc = "resume_new"
    /\ \E fault \in BOOLEAN :
         LET pr == proc[p]
             dataPath == ResumeDataPath(pr.name, pr.uuid)
             res == newLayerUpload(pr.uuid, dataPath, pr.startedAt, fault) IN
         /\ proc' = [proc EXCEPT ![p] = Done(pr, res)]
         /\ shared' = IF res.tag = "layerWriter" /\ LiveWriters(p, dataPath) # {}
                      THEN shared \cup {dataPath} ELSE shared
    /\ UNCHANGED <<store, used, issued, deleted, written, calls>>

\* ------------------------------------------------------------------------
\* The session a handler holds: writes, and the end of the handler
\* ------------------------------------------------------------------------
WriteAt(content, offset, b) ==
    SubSeq(content, 1, offset) \o <<b>> \o SubSeq(content, offset + 2, Len(content))

\* layerWriter.Write of the client's next byte through the writer p holds.
Write(p) ==
    /\ proc[p].pc = "done"
    /\ proc[p].res.tag = "layerWriter"
    /\ proc[p].res.offset < MaxData
    /\ Len(written[<<proc[p].name, proc[p].res.uuid>>]) < MaxData
    /\ LET w == proc[p].res
           k == <<proc[p].name, w.uuid>>
           b == Content[Len(written[k]) + 1] IN
       /\ uploadData' = [uploadData EXCEPT ![w.path] = WriteAt(@, w.offset, b)]
       /\ written' = [written EXCEPT ![k] = Append(@, b)]
       /\ proc' = [proc EXCEPT ![p].res.offset = @ + 1]
    /\ UNCHANGED <<tombstones, links, blobs, startedAtFiles, used, issued,
                   deleted, shared, calls>>

\* The process restarts: calls in flight and sessions in memory are lost,
\* what the driver holds stays.
Crash ==
    /\ \E p \in Procs : proc[p].pc # "idle"
    /\ proc' = [p \in Procs |-> Idle]
    /\ UNCHANGED <<store, used, issued, deleted, written, shared, calls>>

Next ==
    \/ \E p \in Procs, name \in Repos, dgst \in Digests : ExistsCall(p, name, dgst)
    \/ \E p \in Procs, name \in Repos, dgst \in Digests : FetchCall(p, name, dgst)
    \/ \E p \in Procs, name \in Repos, dgst \in Digests : DeleteCall(p, name, dgst)
    \/ \E p \in Procs, name \in Repos : UploadCall(p, name)
    \/ \E p \in Procs, name \in Repos, uuid \in Tokens : ResumeCall(p, name, uuid)
    \/ \E p \in Procs : ExistsPath(p)
    \/ \E p \in Procs : ExistsStat(p)
    \/ \E p \in Procs : FetchPath(p)
    \/ \E p \in Procs : FetchOpen(p)
    \/ \E p \in Procs : DeletePut(p)
    \/ \E p \in Procs : UploadNew(p)
    \/ \E p \in Procs : ResumeNew(p)
    \/ \E p \in Procs : Write(p)
    \/ Crash

Spec == Init /\ [][Next]_vars

\* ------------------------------------------------------------------------
\* The layer store beside a writer of the driver that damages markers
\* ------------------------------------------------------------------------
\* A started-at marker is overwritten with bytes that are no timestamp; only
\* while a call can still be made that would read it.
Damage(startedAtPath) ==
    /\ calls < MaxCalls
    /\ startedAtFiles[startedAtPath] \notin {NoFile, Garbage}
    /\ startedAtFiles' = [startedAtFiles EXCEPT ![startedAtPath] = Garbage]
    /\ UNCHANGED <<tombstones, links, blobs, uploadData, proc, used, issued,
                   deleted, written, shared, calls>>

NextDamaged ==
    \/ Next
    \/ \E startedAtPath \in StartedAtPaths : Damage(startedAtPath)

SpecDamaged == Init /\ [][NextDamaged]_vars

\* ------------------------------------------------------------------------
\* Properties
\* ------------------------------------------------------------------------
\* The handlers whose call `op` has returned.
Returned(op) == {p \in Procs : proc[p].pc = "done" /\ proc[p].op = op}

\* res is the result x, or the driver's own I/O failure handed through.
Gives(res, x) == res = x \/ res = IOError

\* C1: when the tombstone for (repository, d) exists as Exists(d) or Fetch(d)
\* starts - in particular after a Delete(d) returned nil - Exists returns
\* (false, nil) and Fetch fails with ErrUnknownLayer carrying d, whether or not
\* the link resolves and the blob bytes are there; only an I/O failure of the
\* tombstone check itself is returned instead.
C1_TombstonePrecedence ==
    /\ \A p \in Returned("Exists") :
         (proc[p].pre.tomb \/ proc[p].pre.deleted)
            => Gives(proc[p].res, BoolRes(FALSE))
    /\ \A p \in Returned("Fetch") :
         (proc[p].pre.tomb \/ proc[p].pre.deleted)
            => Gives(proc[p].res, ErrUnknownLayer(proc[p].dgst))

\* A Fetch that started after Delete returned nil, on a digest whose link
\* resolves and whose bytes are present, failed with ErrUnknownLayer.
C1_Witness ==
    \E p \in Returned("Fetch") :
      /\ proc[p].pre.deleted /\ proc[p].pre.tomb
      /\ proc[p].pre.link /\ proc[p].pre.blob
      /\ proc[p].res = ErrUnknownLayer(proc[p].dgst)

\* C2: a Delete(d) that starts after a Delete(d) on the same repository
\* returned nil fails with ErrUnknownLayer carrying d (or hands through an I/O
\* failure of the tombstone check), and the step in which a Delete returns
\* ErrUnknownLayer leaves tombstones, links, blobs, started-at markers and
\* upload data as they were.
C2_SecondDeleteFails ==
    /\ [](\A p \in Returned("Delete") :
            proc[p].pre.deleted
               => Gives(proc[p].res, ErrUnknownLayer(proc[p].dgst)))
    /\ [][\A p \in Procs :
            (/\ proc'[p] # proc[p]
             /\ proc'[p].op = "Delete"
             /\ proc'[p].res.tag = "ErrUnknownLayer") => store' = store]_vars

\* The first Delete returned nil and the second, started after it, returned
\* ErrUnknownLayer.
C2_Witness ==
    \E p \in Returned("Delete") :
      /\ proc[p].pre.deleted
      /\ proc[p].res = ErrUnknownLayer(proc[p].dgst)
      /\ calls = 2

\* C3: for a repository that has no link for d, Exists(d) returns (false, nil)
\* and Fetch(d) fails with ErrUnknownLayer carrying d (or an I/O failure is
\* handed through), whatever the blob store holds for d and whatever links
\* other repositories have: the result does not depend on the blob bytes.
C3_NoLinkNoLayer ==
    /\ \A p \in Returned("Exists") :
         ~proc[p].pre.link => Gives(proc[p].res, BoolRes(FALSE))
    /\ \A p \in Returned("Fetch") :
         ~proc[p].pre.link => Gives(proc[p].res, ErrUnknownLayer(proc[p].dgst))

\* Exists returned (false, nil) and Fetch returned ErrUnknownLayer for a digest
\* whose bytes are present and which another repository links, in a repository
\* without a link and without a tombstone for it.
C3_Witness ==
    \E p \in Returned("Exists"), q \in Returned("Fetch") :
      /\ proc[p].name = proc[q].name /\ proc[p].dgst = proc[q].dgst
      /\ ~proc[p].pre.link /\ proc[p].pre.blob /\ ~proc[p].pre.tomb
      /\ ~proc[q].pre.link /\ proc[q].pre.blob /\ ~proc[q].pre.tomb
      /\ \E other \in Repos \ {proc[p].name} :
           layerLinkPathSpec(other, proc[p].dgst) \in links
      /\ proc[p].res = BoolRes(FALSE)
      /\ proc[q].res = ErrUnknownLayer(proc[q].dgst)

\* C4: for a digest whose link resolves to a blob with bytes and which has no
\* tombstone as the call starts, Exists returns (true, nil) and Fetch returns
\* a reader whose digest is the digest asked for (or an I/O failure of the
\* driver is handed through).
C4_CommittedLayerIsServed ==
    /\ \A p \in Returned("Exists") :
         (proc[p].pre.link /\ proc[p].pre.blob /\ ~proc[p].pre.tomb)
            => Gives(proc[p].res, BoolRes(TRUE))
    /\ \A p \in Returned("Fetch") :
         (proc[p].pre.link /\ proc[p].pre.blob /\ ~proc[p].pre.tomb)
            => Gives(proc[p].res, LayerReader(proc[p].dgst, blobPath(proc[p].dgst)))

\* Exists returned (true, nil) and Fetch returned a reader for the same
\* committed digest.
C4_Witness ==
    \E p \in Returned("Exists"), q \in Returned("Fetch") :
      /\ proc[p].name = proc[q].name /\ proc[p].dgst = proc[q].dgst
      /\ proc[p].pre.link /\ proc[p].pre.blob /\ ~proc[p].pre.tomb
      /\ proc[p].res = BoolRes(TRUE)
      /\ proc[q].res.tag = "layerReader" /\ proc[q].res.digest = proc[q].dgst

\* C5: for a digest that has no link and no tombstone in the repository as
\* the call starts, Exists returns (false, nil), Fetch fails with
\* ErrUnknownLayer carrying d, and Delete returns nil with the tombstone for
\* (repository, d) written (or an I/O failure of the driver is handed
\* through).
C5_NeverUploaded ==
    /\ \A p \in Returned("Exists") :
         (~proc[p].pre.link /\ ~proc[p].pre.tomb)
            => Gives(proc[p].res, BoolRes(FALSE))
    /\ \A p \in Returned("Fetch") :
         (~proc[p].pre.link /\ ~proc[p].pre.tomb)
            => Gives(proc[p].res, ErrUnknownLayer(proc[p].dgst))
    /\ \A p \in Returned("Delete") :
         (~proc[p].pre.link /\ ~proc[p].pre.tomb)
            => /\ Gives(proc[p].res, NilErr)
               /\ proc[p].res = NilErr
                    => <<proc[p].name, proc[p].dgst>> \in tombstones

\* Delete of a digest with no link, no bytes and no tombstone returned nil and
\* its tombstone is there, and an Exists of such a digest returned (false, nil).
C5_Witness ==
    \E p \in Returned("Delete"), q \in Returned("Exists") :
      /\ ~proc[p].pre.link /\ ~proc[p].pre.tomb /\ ~proc[p].pre.blob
      /\ proc[p].res = NilErr
      /\ <<proc[p].name, proc[p].dgst>> \in tombstones
      /\ ~proc[q].pre.link /\ ~proc[q].pre.tomb /\ ~proc[q].pre.blob
      /\ proc[q].res = BoolRes(FALSE)

\* C6 as stated: Delete of a digest with no link and no tombstone is an error,
\* as Delete of a tombstoned digest is.
C6_DeleteOfAbsentIsError ==
    \A p \in Returned("Delete") :
      (~proc[p].pre.link /\ ~proc[p].pre.tomb) => proc[p].res # NilErr

\* C6, amended: Delete tells tombstoned from absent.  A Delete that starts
\* with the tombstone in place fails with ErrUnknownLayer carrying d; a Delete
\* that starts without it returns nil, link or no link (or an I/O failure of
\* the driver is handed through).  Under Exists and Fetch a tombstoned digest
\* and a digest without a link do read alike: (false, nil) and
\* ErrUnknownLayer.
C6_DeleteTellsTombstonedFromAbsent ==
    /\ \A p \in Returned("Delete") :
         /\ proc[p].pre.tomb => Gives(proc[p].res, ErrUnknownLayer(proc[p].dgst))
         /\ ~proc[p].pre.tomb => Gives(proc[p].res, NilErr)
    /\ \A p \in Returned("Exists") :
         (proc[p].pre.tomb \/ ~proc[p].pre.link)
            => Gives(proc[p].res, BoolRes(FALSE))
    /\ \A p \in Returned("Fetch") :
         (proc[p].pre.tomb \/ ~proc[p].pre.link)
            => Gives(proc[p].res, ErrUnknownLayer(proc[p].dgst))

\* One Delete of an absent digest returned nil, and a Delete of the digest it
\* tombstoned returned ErrUnknownLayer.
C6_Witness ==
    \E p \in Returned("Delete"), q \in Returned("Delete") :
      /\ ~proc[p].pre.link /\ ~proc[p].pre.tomb /\ proc[p].res = NilErr
      /\ proc[q].name = proc[p].name /\ proc[q].dgst = proc[p].dgst
      /\ proc[q].pre.tomb /\ proc[q].res = ErrUnknownLayer(proc[q].dgst)

\* C7 as stated: a Resume(T) that returns a session, for a token T that
\* Upload() returned with start time S on the same repository, returns the
\* start time S exactly.
C7_StartTimeRoundTrip ==
    \A p \in Returned("Resume") :
      (/\ proc[p].res.tag = "layerWriter"
       /\ issued[proc[p].uuid] # NoSession
       /\ issued[proc[p].uuid].name = proc[p].name
       /\ startedAtFiles[uploadStartedAtPathSpec(proc[p].name, proc[p].uuid)]
            = UploadStartedAtText(issued[proc[p].uuid].startedAt))
         => proc[p].res.startedAt = issued[proc[p].uuid].startedAt

\* A token that no Upload() on the repository `name` has returned, and that
\* no Upload is about to return.
NeverReturned(name, uuid) ==
    /\ issued[uuid] = NoSession \/ issued[uuid].name # name
    /\ \A q \in Procs : ~(/\ proc[q].op = "Upload"
                          /\ proc[q].pc = "upload_new"
                          /\ proc[q].uuid = uuid)

\* C8 as stated: Resume of a token that no successful Upload() returned fails
\* with ErrLayerUploadUnknown (or hands through an I/O failure), also after
\* an Upload that failed between its started-at write and its return.
C8_UnknownUpload ==
    \A p \in Returned("Resume") :
      NeverReturned(proc[p].name, proc[p].uuid)
         => Gives(proc[p].res, ErrLayerUploadUnknown)

\* C9: what an upload's data path holds is what its sessions were given to
\* write, in order - the bytes written through the session of Upload followed
\* by the bytes written through a session of Resume - as long as no two live
\* writers were open on the path at once.
C9_ResumedContent ==
    \A name \in Repos, uuid \in Tokens :
      uploadDataPathSpec(name, uuid) \notin shared
         => uploadData[uploadDataPathSpec(name, uuid)] = written[<<name, uuid>>]

\* A session of Resume that opened its writer behind one byte written through
\* an earlier session has written a second byte, and the data path holds the
\* first two bytes of the content in order.
C9_Witness ==
    \E p \in Returned("Resume") :
      /\ proc[p].res.tag = "layerWriter"
      /\ proc[p].res.size = 1 /\ proc[p].res.offset = 2
      /\ proc[p].res.path \notin shared
      /\ proc[p].res.path = uploadDataPathSpec(proc[p].name, proc[p].uuid)
      /\ uploadData[proc[p].res.path] = <<Content[1], Content[2]>>
      /\ written[<<proc[p].name, proc[p].uuid>>] = <<Content[1], Content[2]>>

\* C10: no step removes a tombstone.
C10_TombstonesMonotonic == [][tombstones \subseteq tombstones']_vars

\* A second Delete has written its tombstone and the tombstone of the first
\* is still there.
C10_Witness == Cardinality(tombstones) = 2

\* The step in which the call `op` of handler p returns the result res.
Returns(p, op, res) ==
    /\ proc[p].pc # "done" \/ proc[p].op # op
    /\ proc'[p].pc = "done" /\ proc'[p].op = op /\ proc'[p].res = res
    /\ proc'[p] # proc[p]

\* C11: the step in which a Delete(d) on repository R returns nil adds the
\* tombstone for (R, d) and nothing else to the tombstones, and leaves every
\* link (the link of R for d too), all blob bytes, every started-at marker and
\* all upload data as they were.
C11_DeleteIsLogical ==
    [][\A p \in Procs :
         Returns(p, "Delete", NilErr)
            => /\ tombstones' = tombstones \cup {<<proc'[p].name, proc'[p].dgst>>}
               /\ links' = links
               /\ blobs' = blobs
               /\ startedAtFiles' = startedAtFiles
               /\ uploadData' = uploadData]_vars

\* A Delete of a linked digest with bytes has returned nil while an upload
\* session exists: tombstone, link, bytes and started-at marker are all there.
C11_Witness ==
    \E p \in Returned("Delete") :
      /\ proc[p].res = NilErr
      /\ proc[p].pre.link /\ proc[p].pre.blob
      /\ <<proc[p].name, proc[p].dgst>> \in tombstones
      /\ layerLinkPathSpec(proc[p].name, proc[p].dgst) \in links
      /\ blobPath(proc[p].dgst) \in blobs
      /\ \E sp \in StartedAtPaths : startedAtFiles[sp] # NoFile

\* C12: a tombstone counts only for its own repository and digest.  A call on
\* (B, d) that starts while tombstones exist for other repositories or other
\* digests only - a Delete(d) on A has returned - gives what it gives with no
\* tombstone at all: Exists and Fetch serve a committed layer and report a
\* layer without a link as unknown, and Delete returns nil (or an I/O failure
\* of the driver is handed through).
C12_TombstonesPerRepository ==
    \A p \in Procs :
      (proc[p].pc = "done" /\ proc[p].pre.other /\ ~proc[p].pre.tomb)
         => /\ proc[p].op = "Exists"
                 => /\ (proc[p].pre.link /\ proc[p].pre.blob)
                         => Gives(proc[p].res, BoolRes(TRUE))
                    /\ ~proc[p].pre.link => Gives(proc[p].res, BoolRes(FALSE))
            /\ proc[p].op = "Fetch"
                 => /\ (proc[p].pre.link /\ proc[p].pre.blob)
                         => Gives(proc[p].res,
                                  LayerReader(proc[p].dgst, blobPath(proc[p].dgst)))
                    /\ ~proc[p].pre.link
                         => Gives(proc[p].res, ErrUnknownLayer(proc[p].dgst))
            /\ proc[p].op = "Delete" => Gives(proc[p].res, NilErr)

\* Exists(d) on B returned (true, nil) after Delete(d) returned nil on A, with
\* which B shares the blob of d.
C12_Witness ==
    \E p \in Returned("Exists"), A \in Repos :
      /\ A # proc[p].name
      /\ <<A, proc[p].dgst>> \in tombstones
      /\ layerLinkPathSpec(A, proc[p].dgst) \in links
      /\ proc[p].pre.other /\ ~proc[p].pre.tomb
      /\ proc[p].pre.link /\ proc[p].pre.blob
      /\ proc[p].res = BoolRes(TRUE)

\* C13 as stated: no call of Exists, Fetch, Delete, Upload or Resume returns
\* the driver's path-not-found error to its caller, also not for a digest
\* whose link resolves to a blob path without bytes.
C13_NotFoundIsTranslated ==
    \A p \in Procs :
      proc[p].pc = "done" => proc[p].res.tag # "PathNotFoundError"

\* The handlers running or holding the result of an Upload.
Uploading == {p \in Procs : proc[p].op = "Upload"}

\* A step of the Upload call of handler p: its start, or its return.
UploadStep(p) ==
    /\ proc'[p] # proc[p]
    /\ proc'[p].op = "Upload"
    /\ proc[p].pc = "upload_new" \/ proc'[p].uuid # proc[p].uuid

C15_OneDeleteSucceeds ==
    \A p \in Returned("Delete") : \A q \in Returned("Delete") \ {p} :
      (proc[p].name = proc[q].name /\ proc[p].dgst = proc[q].dgst)
         => ~(proc[p].res = NilErr /\ proc[q].res = NilErr)

\* C16: for a committed digest d, a Fetch(d) racing a Delete(d) has one of two
\* results and no third.  If its tombstone check ran before the tombstone was
\* written it returns the reader for d, also when the tombstone is there by
\* the time it returns; if the check ran after, it fails with
\* ErrUnknownLayer carrying d.  The Delete that found no tombstone returns nil
\* either way.  (Only an I/O failure of the driver itself is handed through
\* instead.)
C16_FetchDeleteRace ==
    /\ \A p \in Returned("Fetch") :
         (proc[p].pre.link /\ proc[p].pre.blob)
            => /\ ~proc[p].pre.tomb
                    => Gives(proc[p].res,
                             LayerReader(proc[p].dgst, blobPath(proc[p].dgst)))
               /\ proc[p].pre.tomb
                    => Gives(proc[p].res, ErrUnknownLayer(proc[p].dgst))
    /\ \A p \in Returned("Delete") :
         (proc[p].pre.link /\ proc[p].pre.blob /\ ~proc[p].pre.tomb)
            => Gives(proc[p].res, NilErr)

\* The Delete of d has returned nil and its tombstone is there, and the Fetch
\* of d whose tombstone check ran before has returned the reader for d.
C16_Witness ==
    \E p \in Returned("Fetch"), q \in Returned("Delete") :
      /\ proc[p].name = proc[q].name /\ proc[p].dgst = proc[q].dgst
      /\ proc[q].res = NilErr
      /\ <<proc[p].name, proc[p].dgst>> \in tombstones
      /\ ~proc[p].pre.tomb
      /\ proc[p].res = LayerReader(proc[p].dgst, blobPath(proc[p].dgst))

\* The other result of the race: Delete of d has returned nil and the Fetch of
\* d whose tombstone check ran after it has failed with ErrUnknownLayer.
C16_FetchLost ==
    \E p \in Returned("Fetch"), q \in Returned("Delete") :
      /\ proc[p].name = proc[q].name /\ proc[p].dgst = proc[q].dgst
      /\ proc[q].res = NilErr /\ ~proc[q].pre.tomb
      /\ proc[q].pre.link /\ proc[q].pre.blob
      /\ proc[p].pre.tomb
      /\ proc[p].res = ErrUnknownLayer(proc[p].dgst)

\* C17: the layer store removes no upload session.  The started-at marker of
\* every token Upload() has returned exists; no step removes a started-at
\* marker; and a Resume(T) that starts with the marker of T in place does not
\* fail with ErrLayerUploadUnknown.
C17_SessionsPersist ==
    /\ [](/\ \A uuid \in Tokens :
               issued[uuid] # NoSession
                  => startedAtFiles[uploadStartedAtPathSpec(issued[uuid].name, uuid)]
                       # NoFile
          /\ \A p \in Returned("Resume") :
               proc[p].pre.marker => proc[p].res # ErrLayerUploadUnknown)
    /\ [][\A sp \in StartedAtPaths :
            startedAtFiles[sp] # NoFile => startedAtFiles'[sp] # NoFile]_vars

\* A Resume(T) on the repository whose Upload() returned T, started with the
\* marker of T in place, has returned a session.
C17_Witness ==
    \E p \in Returned("Resume") :
      /\ issued[proc[p].uuid] # NoSession
      /\ issued[proc[p].uuid].name = proc[p].name
      /\ proc[p].pre.marker
      /\ proc[p].res.tag = "layerWriter"
      /\ startedAtFiles[uploadStartedAtPathSpec(proc[p].name, proc[p].uuid)] # NoFile

\* C18: Upload writes the started-at marker before it allocates the writer
\* and takes nothing back.  While the allocation is pending the marker of the
\* token is there.  The step in which Upload fails on its started-at write
\* changes nothing in the driver and leaves the token with no marker, no data
\* and no session; the step in which it fails on the allocation changes
\* nothing in the driver either - the marker written before stays, no data is
\* created - and returns no session.
C18_UploadPartialFailure ==
    /\ [](\A p \in Procs :
            proc[p].pc = "upload_new"
               => startedAtFiles[uploadStartedAtPathSpec(proc[p].name, proc[p].uuid)]
                    = UploadStartedAtText(proc[p].startedAt))
    /\ [][\A p \in Procs :
            (UploadStep(p) /\ proc'[p].pc = "done" /\ proc'[p].res.tag # "layerWriter")
               => LET sp == uploadStartedAtPathSpec(proc'[p].name, proc'[p].uuid)
                      dp == uploadDataPathSpec(proc'[p].name, proc'[p].uuid) IN
                  /\ store' = store
                  /\ issued'[proc'[p].uuid] = NoSession
                  /\ IF proc[p].pc = "upload_new"
                     THEN startedAtFiles'[sp] = UploadStartedAtText(proc'[p].startedAt)
                     ELSE startedAtFiles'[sp] = NoFile /\ uploadData'[dp] = <<>>]_vars

\* An Upload has failed on the allocation of its writer: it returned an
\* error, its token has no session and no data, and its marker is there.
C18_Witness ==
    \E p \in Returned("Upload") :
      /\ proc[p].res = IOError
      /\ issued[proc[p].uuid] = NoSession
      /\ uploadData[uploadDataPathSpec(proc[p].name, proc[p].uuid)] = <<>>
      /\ startedAtFiles[uploadStartedAtPathSpec(proc[p].name, proc[p].uuid)]
           = UploadStartedAtText(proc[p].startedAt)

\* C19: a call Resume(T) made while the started-at marker of T holds bytes that
\* are no timestamp returns at once, with the parse error (or an I/O failure
\* of the read) and no session - it takes no other time in place of the
\* unreadable one and does not go on to allocate the writer - and changes
\* neither the marker nor the upload data.
C19_MalformedStartedAt ==
    [][\A p \in Procs :
         (/\ calls' = calls + 1
          /\ proc'[p] # proc[p]
          /\ proc'[p].op = "Resume"
          /\ startedAtFiles[uploadStartedAtPathSpec(proc'[p].name, proc'[p].uuid)]
               = Garbage)
            => /\ proc'[p].pc = "done"
               /\ proc'[p].res \in {ParseError, IOError}
               /\ store' = store]_vars

\* A Resume of a token whose marker was damaged has returned the parse error;
\* the damaged marker is as it was.
C19_Witness ==
    \E p \in Returned("Resume") :
      /\ proc[p].res = ParseError
      /\ proc[p].pre.marker
      /\ startedAtFiles[uploadStartedAtPathSpec(proc[p].name, proc[p].uuid)] = Garbage

====
